---- MODULE Spec2Model ----
(***************************************************************************)
(* docs/github_readme.py: the README generator.  A chain of Python         *)
(* generators reads text fragments, concatenates them, rewrites the `::`   *)
(* code-block shorthand, strips the :orphan: directive and writes the      *)
(* result to README.rst.                                                   *)
(*                                                                         *)
(* Text is modelled as a sequence of one-character strings, so that        *)
(* startswith / endswith / strip / replace / rsplit / splitlines / % are   *)
(* computed character by character.                                        *)
(*                                                                         *)
(* Two specifications:                                                     *)
(*   SpecPipe  the stages as functions from streams to streams, applied by *)
(*             pipeline() (functools.reduce) to bounded inputs;            *)
(*   Spec      the run of the script: every generator frame with its       *)
(*             position and locals, one action per resumption of a frame.  *)
(***************************************************************************)
EXTENDS Integers, Sequences, FiniteSets, TLC

\* ------------------------------------------------------------------ bounds
\* lines a fragment file may hold
MaxLines == 3
\* elements of an input stream of SpecPipe
MaxStream == 2
\* stages of a stage list of SpecPipe
MaxSteps == 2
\* fragments of a source list of SpecPipe
MaxFrags == 2
\* elements of a stream given to notify in SpecPipe
MaxNotify == 6

\* notify prints a tick when i % 5 is 0
TickEvery == 5

\* ------------------------------------------------------------ text helpers
Whitespace == {" ", "\n", "\t"}

\* str.startswith
StartsWith(s, p) == Len(s) >= Len(p) /\ SubSeq(s, 1, Len(p)) = p

\* str.endswith
EndsWith(s, p) == Len(s) >= Len(p) /\ SubSeq(s, Len(s) - Len(p) + 1, Len(s)) = p

\* the smallest and the largest element of a non-empty set of integers
Min(S) == CHOOSE x \in S : \A y \in S : x <= y
Max(S) == CHOOSE x \in S : \A y \in S : x >= y

\* str.lstrip(): from the first character that is no whitespace
LStrip(s) ==
    LET keep == {i \in 1..Len(s) : s[i] \notin Whitespace}
    IN  IF keep = {} THEN <<>> ELSE SubSeq(s, Min(keep), Len(s))

\* str.rstrip(): up to the last character that is no whitespace
RStrip(s) ==
    LET keep == {i \in 1..Len(s) : s[i] \notin Whitespace}
    IN  IF keep = {} THEN <<>> ELSE SubSeq(s, 1, Max(keep))

\* str.strip()
Strip(s) == RStrip(LStrip(s))

\* str.replace(old, new): every non-overlapping occurrence, left to right
RECURSIVE Replace(_, _, _)
Replace(s, old, new) ==
    LET at == {i \in 1..(Len(s) - Len(old) + 1) : SubSeq(s, i, i + Len(old) - 1) = old}
    IN  IF at = {} THEN s
        ELSE SubSeq(s, 1, Min(at) - 1) \o new
             \o Replace(SubSeq(s, Min(at) + Len(old), Len(s)), old, new)

\* template % arg, for a template holding one %s
Format(template, arg) == Replace(template, <<"%", "s">>, arg)

\* str.rsplit(maxsplit=1): the list of parts (0, 1 or 2 of them)
rsplit(s) ==
    LET t == RStrip(s)
        spaces == {i \in 1..Len(t) : t[i] \in Whitespace}
        k == IF spaces = {} THEN 0 ELSE Max(spaces)
        head == RStrip(SubSeq(t, 1, k))
        tok == SubSeq(t, k + 1, Len(t))
    IN  IF t = <<>> THEN <<>>
        ELSE IF head = <<>> THEN <<tok>>
        ELSE <<head, tok>>

\* str.splitlines(True): the lines of a text, each keeping its terminator
RECURSIVE splitlines(_)
splitlines(text) ==
    LET ends == {i \in 1..Len(text) : text[i] = "\n"}
    IN  IF text = <<>> THEN <<>>
        ELSE IF ends = {} THEN <<text>>
        ELSE <<SubSeq(text, 1, Min(ends))>> \o splitlines(SubSeq(text, Min(ends) + 1, Len(text)))

RECURSIVE Flatten(_)
Flatten(ss) == IF ss = <<>> THEN <<>> ELSE Head(ss) \o Flatten(Tail(ss))

\* ------------------------------------------------------------------ config
\* os.path.join of two components
join(a, b) == a \o <<"/">> \o b

\* os.path.dirname
dirname(p) == SubSeq(p, 1, Max({i \in 1..Len(p) : p[i] = "/"}) - 1)

\* os.path.realpath, for the one form the script builds: a trailing "/.."
realpath(p) ==
    IF EndsWith(p, <<"/", ".", ".">>) THEN dirname(SubSeq(p, 1, Len(p) - 3)) ELSE p

\* path(*args)
path(a, b) == realpath(join(a, b))

\* __file__: the script, docs/github_readme.py under the project directory
\* '/p/docs/github_readme.py'
FILE == <<"/", "p", "/", "d", "o", "c", "s", "/", "g", "i", "t", "h", "u", "b", "_", "r", "e", "a", "d", "m", "e", ".", "p", "y">>

\* DOCS()
DOCS == dirname(FILE)

\* SOURCE(file_name)
SOURCE(file_name) == path(path(DOCS, <<"s", "o", "u", "r", "c", "e">>), file_name)

\* PROJECT()
PROJECT == path(DOCS, <<".", ".">>)

\* os.path.relpath of a path below start
relpath(p, start) == SubSeq(p, Len(start) + 2, Len(p))

\* 'README.rst'
README == <<"R", "E", "A", "D", "M", "E", ".", "r", "s", "t">>

OUT_FILE == path(PROJECT, README)

\* datetime.now().strftime('%A, %B %d, %Y'), e.g. 'Friday, December 11, 2015'
TODAY == <<"F", "r", "i", "d", "a", "y", ",", " ", "D", "e", "c", "e", "m", "b", "e", "r", " ", "1", "1", ",", " ", "2", "0", "1", "5">>

\* '.. Source defined in %s\n\n'
FILE_HEADER == <<".", ".", " ", "S", "o", "u", "r", "c", "e", " ", "d", "e", "f", "i", "n", "e", "d", " ", "i", "n", " ", "%", "s", "\n", "\n">>

\* '.. This document was procedurally generated by %s on %s' % (__file__, TODAY)
comment_line ==
    <<".", ".", " ", "T", "h", "i", "s", " ", "d", "o", "c", "u", "m", "e", "n", "t", " ", "w", "a", "s", " ", "p", "r", "o", "c", "e", "d", "u", "r", "a", "l", "l", "y", " ", "g", "e", "n", "e", "r", "a", "t", "e", "d", " ", "b", "y", " ">>
    \o FILE \o <<" ", "o", "n", " ">> \o TODAY

\* '\n.. role:: mod(literal)\n.. role:: data(literal)\n.. role:: envvar(literal)\n'
roles_override ==
    <<"\n">>
    \o <<".", ".", " ", "r", "o", "l", "e", ":", ":", " ", "m", "o", "d", "(", "l", "i", "t", "e", "r", "a", "l", ")", "\n">>
    \o <<".", ".", " ", "r", "o", "l", "e", ":", ":", " ", "d", "a", "t", "a", "(", "l", "i", "t", "e", "r", "a", "l", ")", "\n">>
    \o <<".", ".", " ", "r", "o", "l", "e", ":", ":", " ", "e", "n", "v", "v", "a", "r", "(", "l", "i", "t", "e", "r", "a", "l", ")", "\n">>

\* --------------------------------------------------------- line vocabulary
\* The lines a fragment file can hold: one line of each shape the rules
\* tell apart.
\* 'a\n'
L_plain == <<"a", "\n">>
\* 'a::\n'
L_short == <<"a", ":", ":", "\n">>
\* '.. highlight:: r\n'
L_hl_r == <<".", ".", " ", "h", "i", "g", "h", "l", "i", "g", "h", "t", ":", ":", " ", "r", "\n">>
\* '.. highlight:: c\n'
L_hl_c == <<".", ".", " ", "h", "i", "g", "h", "l", "i", "g", "h", "t", ":", ":", " ", "c", "\n">>
\* '.. highlight:: \n'
L_hl_none == <<".", ".", " ", "h", "i", "g", "h", "l", "i", "g", "h", "t", ":", ":", " ", "\n">>
\* '.. a::\n'
L_dir == <<".", ".", " ", "a", ":", ":", "\n">>
\* ' .. a::\n'
L_ind_dir == <<" ", ".", ".", " ", "a", ":", ":", "\n">>
\* ':orphan:\n'
L_orphan == <<":", "o", "r", "p", "h", "a", "n", ":", "\n">>
\* ':orphan: a::\n'
L_orphan_short == <<":", "o", "r", "p", "h", "a", "n", ":", " ", "a", ":", ":", "\n">>
\* '.. Source defined in a\n'
L_src == <<".", ".", " ", "S", "o", "u", "r", "c", "e", " ", "d", "e", "f", "i", "n", "e", "d", " ", "i", "n", " ", "a", "\n">>
\* '.. Source defined in a::\n'
L_src_short == <<".", ".", " ", "S", "o", "u", "r", "c", "e", " ", "d", "e", "f", "i", "n", "e", "d", " ", "i", "n", " ", "a", ":", ":", "\n">>

Vocabulary ==
    {L_plain, L_short, L_hl_r, L_hl_c, L_hl_none, L_dir, L_ind_dir, L_orphan,
     L_orphan_short, L_src, L_src_short}

\* 'readme_title.rst'
F_readme_title == <<"r", "e", "a", "d", "m", "e", "_", "t", "i", "t", "l", "e", ".", "r", "s", "t">>
\* 'readme_features.rst'
F_readme_features == <<"r", "e", "a", "d", "m", "e", "_", "f", "e", "a", "t", "u", "r", "e", "s", ".", "r", "s", "t">>
\* 'installation.rst'
F_installation == <<"i", "n", "s", "t", "a", "l", "l", "a", "t", "i", "o", "n", ".", "r", "s", "t">>
\* 'usage.rst'
F_usage == <<"u", "s", "a", "g", "e", ".", "r", "s", "t">>
\* 'readme_credits.rst'
F_readme_credits == <<"r", "e", "a", "d", "m", "e", "_", "c", "r", "e", "d", "i", "t", "s", ".", "r", "s", "t">>

\* The fragments include_documents yields, in order: read_text of the two
\* literals, then read_source of the five files.
Documents ==
    << [kind |-> "text", text |-> comment_line, name |-> <<>>],
       [kind |-> "text", text |-> roles_override, name |-> <<>>],
       [kind |-> "file", text |-> <<>>, name |-> F_readme_title],
       [kind |-> "file", text |-> <<>>, name |-> F_readme_features],
       [kind |-> "file", text |-> <<>>, name |-> F_installation],
       [kind |-> "file", text |-> <<>>, name |-> F_usage],
       [kind |-> "file", text |-> <<>>, name |-> F_readme_credits] >>

\* --------------------------------------------- the stages, line by line
\* a variant of HeaderLine that keeps the absolute path
HeaderLine_absolute(p) == Format(FILE_HEADER, p)

\* The Header Line of a fragment whose provenance is the path p.
HeaderLine(p) == Format(FILE_HEADER, relpath(p, PROJECT))

\* read_file(file_name) on a file holding the lines `content`
read_file(file_name, content) == <<HeaderLine(file_name)>> \o content

\* read_source(file_name)
read_source(file_name, content) == read_file(SOURCE(file_name), content)

\* read_text(text)
read_text(text) == <<HeaderLine(FILE)>> \o splitlines(text)

\* '\n\n', what concatenate yields after each source
SEPARATOR == <<"\n", "\n">>

\* a variant of concatenate that yields '\n\n' between sources only
RECURSIVE concatenate_between(_)
concatenate_between(sources) ==
    IF sources = <<>> THEN <<>>
    ELSE IF Len(sources) = 1 THEN Head(sources)
    ELSE Head(sources) \o <<SEPARATOR>> \o concatenate_between(Tail(sources))

\* concatenate(sources), as the list of what it yields
RECURSIVE concatenate(_)
concatenate(sources) ==
    IF sources = <<>> THEN <<>>
    ELSE Head(sources) \o <<SEPARATOR>> \o concatenate(Tail(sources))

\* 'python'
PYTHON == <<"p", "y", "t", "h", "o", "n">>
\* '.. highlight:: '
HIGHLIGHT == <<".", ".", " ", "h", "i", "g", "h", "l", "i", "g", "h", "t", ":", ":", " ">>
\* '::\n'
SHORTHAND == <<":", ":", "\n">>
\* '\n.. code-block:: %s\n'
CODE_BLOCK == <<"\n", ".", ".", " ", "c", "o", "d", "e", "-", "b", "l", "o", "c", "k", ":", ":", " ", "%", "s", "\n">>
\* ':orphan:'
ORPHAN == <<":", "o", "r", "p", "h", "a", "n", ":">>

\* FILE_HEADER[:-5]
NEW_FILE_PREFIX == SubSeq(FILE_HEADER, 1, Len(FILE_HEADER) - 5)

\* a variant of the loop body without the `continue` after the directive:
\* a shorthand line is yielded unchanged as well
rule__code_blocks_body_nocontinue(line, code_block_language) ==
    LET is_new_file == StartsWith(line, NEW_FILE_PREFIX)
        is_code_block_shorthand ==
            EndsWith(line, SHORTHAND) /\ ~StartsWith(Strip(line), <<".", ".">>)
        parts == rsplit(line)
        language == IF is_new_file THEN PYTHON ELSE code_block_language
    IN  IF StartsWith(line, HIGHLIGHT)
        THEN [out |-> <<>>, lang |-> parts[2], error |-> FALSE]
        ELSE IF is_code_block_shorthand
        THEN [out |-> <<Replace(line, SHORTHAND, <<"\n">>), Format(CODE_BLOCK, language), line>>,
              lang |-> language, error |-> FALSE]
        ELSE [out |-> <<line>>, lang |-> language, error |-> FALSE]

\* a variant of the loop body that never resets the language
rule__code_blocks_body_noreset(line, code_block_language) ==
    LET is_code_block_shorthand ==
            EndsWith(line, SHORTHAND) /\ ~StartsWith(Strip(line), <<".", ".">>)
        parts == rsplit(line)
    IN  IF StartsWith(line, HIGHLIGHT)
        THEN [out |-> <<>>, lang |-> parts[2], error |-> FALSE]
        ELSE IF is_code_block_shorthand
        THEN [out |-> <<Replace(line, SHORTHAND, <<"\n">>),
                        Format(CODE_BLOCK, code_block_language)>>,
              lang |-> code_block_language, error |-> FALSE]
        ELSE [out |-> <<line>>, lang |-> code_block_language, error |-> FALSE]

\* a variant of the loop body that resets the language only on lines that
\* do not end with '::\n'
rule__code_blocks_body_resetplain(line, code_block_language) ==
    LET is_new_file == StartsWith(line, NEW_FILE_PREFIX) /\ ~EndsWith(line, SHORTHAND)
        is_code_block_shorthand ==
            EndsWith(line, SHORTHAND) /\ ~StartsWith(Strip(line), <<".", ".">>)
        parts == rsplit(line)
        language == IF is_new_file THEN PYTHON ELSE code_block_language
    IN  IF StartsWith(line, HIGHLIGHT)
        THEN [out |-> <<>>, lang |-> parts[2], error |-> FALSE]
        ELSE IF is_code_block_shorthand
        THEN [out |-> <<Replace(line, SHORTHAND, <<"\n">>), Format(CODE_BLOCK, language)>>,
              lang |-> language, error |-> FALSE]
        ELSE [out |-> <<line>>, lang |-> language, error |-> FALSE]

\* a variant of the loop body that takes every line ending with '::\n' for
\* shorthand
rule__code_blocks_body_anyshorthand(line, code_block_language) ==
    LET is_new_file == StartsWith(line, NEW_FILE_PREFIX)
        is_code_block_shorthand == EndsWith(line, SHORTHAND)
        parts == rsplit(line)
        language == IF is_new_file THEN PYTHON ELSE code_block_language
    IN  IF StartsWith(line, HIGHLIGHT)
        THEN [out |-> <<>>, lang |-> parts[2], error |-> FALSE]
        ELSE IF is_code_block_shorthand
        THEN [out |-> <<Replace(line, SHORTHAND, <<"\n">>), Format(CODE_BLOCK, language)>>,
              lang |-> language, error |-> FALSE]
        ELSE [out |-> <<line>>, lang |-> language, error |-> FALSE]

\* One pass of the loop body of rule__code_blocks: what it yields for `line`
\* (out), the language it leaves (lang), and whether the unpacking of
\* rsplit's result raises ValueError (error).
rule__code_blocks_body(line, code_block_language) ==
    LET is_new_file == StartsWith(line, NEW_FILE_PREFIX)
        is_code_block_shorthand ==
            EndsWith(line, SHORTHAND) /\ ~StartsWith(Strip(line), <<".", ".">>)
        parts == rsplit(line)
        language == IF is_new_file THEN PYTHON ELSE code_block_language
    IN  IF StartsWith(line, HIGHLIGHT)
        THEN IF Len(parts) = 2
             THEN [out |-> <<>>, lang |-> parts[2], error |-> FALSE]
             ELSE [out |-> <<>>, lang |-> code_block_language, error |-> TRUE]
        ELSE IF is_code_block_shorthand
        THEN [out |-> <<Replace(line, SHORTHAND, <<"\n">>), Format(CODE_BLOCK, language)>>,
              lang |-> language, error |-> FALSE]
        ELSE [out |-> <<line>>, lang |-> language, error |-> FALSE]

\* rule__code_blocks(lines) from the language `lang` on
RECURSIVE rule__code_blocks_from(_, _)
rule__code_blocks_from(lines, lang) ==
    IF lines = <<>> THEN <<>>
    ELSE LET r == rule__code_blocks_body(Head(lines), lang)
         IN  IF r.error THEN <<>>
             ELSE r.out \o rule__code_blocks_from(Tail(lines), r.lang)

\* rule__code_blocks(lines)
rule__code_blocks(lines) == rule__code_blocks_from(lines, PYTHON)

\* a variant of the loop body that drops only the bare ':orphan:' line
rule__other_rules_body_exact(line) == IF Strip(line) = ORPHAN THEN <<>> ELSE <<line>>

\* One pass of the loop body of rule__other_rules: what it yields for `line`
rule__other_rules_body(line) == IF StartsWith(line, ORPHAN) THEN <<>> ELSE <<line>>

\* rule__other_rules(lines)
RECURSIVE rule__other_rules(_)
rule__other_rules(lines) ==
    IF lines = <<>> THEN <<>>
    ELSE rule__other_rules_body(Head(lines)) \o rule__other_rules(Tail(lines))

\* -------------------------------------------- the stages, stream by stream
VARIABLES
    p_steps,    \* pipeline's argument steps: the list of stage names
    p_initial,  \* pipeline's argument initial
    p_fs,       \* the lines the five fragment files hold
    p_pc,       \* "call", "reduce" or "done"
    p_i,        \* reduce: the index of the next step
    p_prev,     \* reduce: the accumulator before the last application
    p_result,   \* reduce: the accumulator
    p_out       \* what the pipeline generator yields, once it is done

pvars == <<p_steps, p_initial, p_fs, p_pc, p_i, p_prev, p_result, p_out>>

\* list(pipeline(process)): one generator frame per stage.  Control is in one
\* frame at a time: sig names the frame that runs next and why (it is asked
\* for its next element, or the frame it pulled from yielded or returned).
VARIABLES
    main,           \* __main__: "start", "constructed", "iterating", "done", "failed", "exited"
    chain,          \* the frames reduce built, producer first; <<>> before the first pull
    sig,            \* [to, kind, val]: the frame in control and what it is handed
    f_notify,       \* notify: pc, the index i of enumerate (modulo 5, all notify reads of it), what was printed
    f_write_file,   \* write_file: pc, the state of the output file, the fragment of the last header written
    f_other_rules,  \* rule__other_rules: pc, the line taken last and what it yielded for it
    f_code_blocks,  \* rule__code_blocks: pc, code_block_language, the pending yield
    f_concatenate,  \* concatenate: pc, the current source, counts of what it yielded
    f_include,      \* include_documents: pc, the number of fragments yielded
    f_read,         \* the read_file / read_text frame of the current source
    handles,        \* the fragments whose file handle is open
    last_override   \* the most recent '.. highlight:: ' line: its fragment and the kind it names

mvars == <<main, chain, sig, f_notify, f_write_file, f_other_rules, f_code_blocks,
           f_concatenate, f_include, f_read, handles, last_override>>

vars == <<pvars, mvars>>

\* What flows between stages is a generator, modelled by what it yields when
\* it is exhausted: nothing at all (None), fragment generators (srcs), lines
\* (lines) or the numbers f.write returns (counts); frames lists the generator
\* frames that run when it is pulled, producer first; written is what
\* exhausting it writes to OUT_FILE and printed what it prints, in order,
\* with a "yield" for every element notify yields in between.
None ==
    [kind |-> "None", srcs |-> <<>>, lines |-> <<>>, counts |-> <<>>, frames |-> <<>>,
     written |-> <<>>, printed |-> <<>>]
Sources(ss, fr) == [None EXCEPT !.kind = "sources", !.srcs = ss, !.frames = fr]
Lines(ls, fr) == [None EXCEPT !.kind = "lines", !.lines = ls, !.frames = fr]
Counts(ns, fr) == [None EXCEPT !.kind = "counts", !.counts = ns, !.frames = fr]

\* a stage that neither writes nor prints leaves both to the stages before it
Carry(result, r) == [r EXCEPT !.written = result.written, !.printed = result.printed]

\* include_documents(_): its argument is ignored
include_documents(x) ==
    Sources([k \in 1..Len(Documents) |->
                IF Documents[k].kind = "text"
                THEN read_text(Documents[k].text)
                ELSE read_source(Documents[k].name, p_fs[k])],
            <<"include_documents">>)

\* write_file(file_name, lines): yields what each f.write(line) returns
write_file(file_name, lines) ==
    [Counts([k \in 1..Len(lines.lines) |-> Len(lines.lines[k])],
            Append(lines.frames, "write_file"))
        EXCEPT !.written = lines.lines, !.printed = lines.printed]

\* write_out(lines)
write_out(lines) == write_file(OUT_FILE, lines)

\* a variant of the tick test that ticks at every element
is_tick_always(i) == TRUE

\* i % 5 is 0
is_tick(i) == i % TickEvery = 0

\* the for loop of notify over enumerate(lines), from index i: what it
\* prints, with a "yield" for every `yield line`, up to print('Done!')
RECURSIVE notify_loop(_, _)
notify_loop(lines, i) ==
    IF lines = <<>> THEN <<"Done!">>
    ELSE (IF is_tick(i) THEN <<".">> ELSE <<>>) \o <<"yield">>
         \o notify_loop(Tail(lines), i + 1)

\* the elements the for loop of notify yields
RECURSIVE notify_yields(_)
notify_yields(lines) ==
    IF lines = <<>> THEN <<>> ELSE <<Head(lines)>> \o notify_yields(Tail(lines))

\* notify(lines): prints 'Writing README.rst', then yields every element it
\* is given, with a '.' before those whose index is a multiple of 5, then
\* prints 'Done!'
notify(lines) ==
    [lines EXCEPT !.lines = notify_yields(@),
                  !.counts = notify_yields(@),
                  !.srcs = notify_yields(@),
                  !.printed = @ \o <<"Writing">> \o notify_loop(lines.lines \o lines.counts \o lines.srcs, 0),
                  !.frames = Append(lines.frames, "notify")]

\* the rules of sanitize
rules == <<"rule__code_blocks", "rule__other_rules">>

\* the process of __main__
process == <<"include_documents", "concatenate", "sanitize", "write_out", "notify">>

RECURSIVE step_call(_, _)

\* pipeline.apply(result, step): the generator `yield from step(result)`
apply(result, step) == step_call(step, result)

\* functools.reduce(apply, steps, initial)
RECURSIVE reduce_apply(_, _)
reduce_apply(steps, initial) ==
    IF steps = <<>> THEN initial
    ELSE reduce_apply(Tail(steps), apply(initial, Head(steps)))

\* pipeline(steps, initial)
pipeline(steps, initial) == reduce_apply(steps, initial)

\* sanitize(lines)
sanitize(lines) == pipeline(rules, lines)

\* step(result), for the stage named step
step_call(step, result) ==
    CASE step = "include_documents" -> include_documents(result)
      [] step = "concatenate" ->
            Carry(result, Lines(concatenate(result.srcs), Append(result.frames, step)))
      [] step = "rule__code_blocks" ->
            Carry(result, Lines(rule__code_blocks(result.lines), Append(result.frames, step)))
      [] step = "rule__other_rules" ->
            Carry(result, Lines(rule__other_rules(result.lines), Append(result.frames, step)))
      [] step = "sanitize" -> sanitize(result)
      [] step = "write_out" -> write_out(result)
      [] step = "notify" -> notify(result)

\* ---- inputs of SpecPipe
LineStages == {"rule__code_blocks", "rule__other_rules", "sanitize"}

SeqsUpTo(S, n) == UNION {[1..k -> S] : k \in 0..n}

StreamVocabulary == Vocabulary \cup {HeaderLine(FILE), SEPARATOR}

FragmentStreams ==
    {read_source(F_usage, c) : c \in {<<>>, <<L_plain>>, <<L_short>>, <<L_hl_r, L_short>>}}
    \cup {read_text(comment_line)}

\* the stage lists that end the process of __main__, with and without notify
OutputStages ==
    {<<"write_out">>, <<"notify">>, <<"write_out", "notify">>, <<"notify", "write_out">>}

\* streams long enough for notify to tick more than once
LongStreams == UNION {[1..k -> {L_plain, L_short}] : k \in {0, 1} \cup (TickEvery - 1)..MaxNotify}

FileSystems ==
    { [k \in 1..Len(Documents) |-> <<>>],
      [k \in 1..Len(Documents) |->
          CASE k = 3 -> <<L_plain>>
            [] k = 4 -> <<L_orphan, L_plain>>
            [] k = 5 -> <<L_short>>
            [] k = 6 -> <<L_hl_r, L_short, L_plain>>
            [] OTHER -> <<>>] }

PipeArguments ==
    /\ p_pc = "call"
    /\ p_i = 0
    /\ p_prev = None
    /\ p_result = None
    /\ p_out = None
    /\ \/ /\ p_steps \in SeqsUpTo(LineStages, MaxSteps) \ {<<>>}
          /\ p_initial \in {Lines(ls, <<>>) : ls \in SeqsUpTo(StreamVocabulary, MaxStream)}
          /\ p_fs \in {[k \in 1..Len(Documents) |-> <<>>]}
       \/ /\ p_steps \in {<<"concatenate">> \o t : t \in SeqsUpTo(LineStages, MaxSteps)}
          /\ p_initial \in {Sources(ss, <<>>) : ss \in SeqsUpTo(FragmentStreams, MaxFrags)}
          /\ p_fs \in {[k \in 1..Len(Documents) |-> <<>>]}
       \/ /\ p_steps \in {<<"include_documents", "concatenate">> \o t :
                             t \in SeqsUpTo(LineStages, MaxSteps)}
          /\ p_initial = None
          /\ p_fs \in FileSystems
       \/ /\ p_steps \in {process, SubSeq(process, 1, Len(process) - 1)}
          /\ p_initial = None
          /\ p_fs \in FileSystems
       \/ /\ p_steps \in OutputStages
          /\ p_initial \in {Lines(ls, <<>>) : ls \in LongStreams}
          /\ p_fs \in {[k \in 1..Len(Documents) |-> <<>>]}

\* pipeline(steps, initial) is called and pulled: reduce starts from initial
PipelineCall ==
    /\ p_pc = "call"
    /\ p_pc' = "reduce"
    /\ p_i' = 1
    /\ p_result' = p_initial
    /\ UNCHANGED <<p_steps, p_initial, p_fs, p_prev, p_out>>
    /\ UNCHANGED mvars

\* a variant of reduce that takes the steps last to first
ReduceApply_reversed ==
    /\ p_pc = "reduce"
    /\ p_i <= Len(p_steps)
    /\ p_prev' = p_result
    /\ p_result' = apply(p_result, p_steps[Len(p_steps) - p_i + 1])
    /\ p_i' = p_i + 1
    /\ UNCHANGED <<p_steps, p_initial, p_fs, p_pc, p_out>>
    /\ UNCHANGED mvars

\* reduce takes the next step: result = apply(result, step)
ReduceApply ==
    /\ p_pc = "reduce"
    /\ p_i <= Len(p_steps)
    /\ p_prev' = p_result
    /\ p_result' = apply(p_result, p_steps[p_i])
    /\ p_i' = p_i + 1
    /\ UNCHANGED <<p_steps, p_initial, p_fs, p_pc, p_out>>
    /\ UNCHANGED mvars

\* reduce returns; pipeline yields from its result
PipelineYieldFrom ==
    /\ p_pc = "reduce"
    /\ p_i > Len(p_steps)
    /\ p_pc' = "done"
    /\ p_out' = p_result
    /\ UNCHANGED <<p_steps, p_initial, p_fs, p_i, p_prev, p_result>>
    /\ UNCHANGED mvars

PipeNext == PipelineCall \/ ReduceApply \/ PipelineYieldFrom

\* ------------------------------------------------------ the run of the script
\* An element in flight: the text of a line (or the number n write returned),
\* with where it comes from: its fragment, its role there ("header",
\* "content", "separator"; "source" for a fragment generator), its position
\* among the content lines, and what rule__code_blocks made of it.
Element(text, frag, role, idx) ==
    [text |-> text, n |-> 0, frag |-> frag, role |-> role, idx |-> idx, part |-> "line"]

NoElement == Element(<<>>, 0, "none", 0)

Idle == [to |-> "main", kind |-> "none", val |-> NoElement]

Send(to, kind, v) == sig' = [to |-> to, kind |-> kind, val |-> v]

At(frame, kind) == main = "iterating" /\ sig.to = frame /\ sig.kind = kind

\* position of a frame in the chain (a source's reader runs inside concatenate)
Pos(frame) ==
    LET f == IF frame = "reader" THEN "concatenate" ELSE frame
    IN  CHOOSE k \in 1..Len(chain) : chain[k] = f

\* the frame a frame pulls from, and the frame that pulls from it
Up(frame) == chain[Pos(frame) - 1]
Down(frame) == IF Pos(frame) = Len(chain) THEN "main" ELSE chain[Pos(frame) + 1]

\* the frames before list() pulls anything
MachineInit ==
    /\ chain = <<>>
    /\ sig = Idle
    /\ f_notify = [pc |-> "start", i |-> 0, writing |-> FALSE, tick |-> FALSE, done |-> FALSE]
    /\ f_write_file = [pc |-> "start", file |-> "unopened", header |-> 0, last |-> NoElement]
    /\ f_other_rules = [pc |-> "start", in |-> NoElement, out |-> <<>>]
    /\ f_code_blocks = [pc |-> "start", code_block_language |-> PYTHON, pending |-> <<>>,
                        in |-> NoElement, out |-> <<>>]
    /\ f_concatenate = [pc |-> "start", source |-> 0, nsrc |-> 0, nsep |-> 0, cnt |-> 0]
    /\ f_include = [pc |-> "start", i |-> 0]
    /\ f_read = [pc |-> "start", frag |-> 0, pending |-> <<>>, nread |-> 0]
    /\ handles = {}
    /\ last_override = [frag |-> 0, kind |-> <<>>]

Init ==
    /\ main = "start"
    /\ MachineInit
    /\ p_steps = <<>>
    /\ p_initial = None
    /\ p_fs = [k \in 1..Len(Documents) |-> <<>>]
    /\ p_pc = "idle"
    /\ p_i = 0
    /\ p_prev = None
    /\ p_result = None
    /\ p_out = None

\* ---- exceptions
\* An exception raised in frame `from` ends that frame and every frame that
\* is pulling from it, up to list(); the `with` of write_file closes the
\* output file on the way.
Unwound(fr, frame, from) ==
    IF Pos(frame) >= Pos(from) THEN [fr EXCEPT !.pc = "dead"] ELSE fr

Raise(from) ==
    /\ main' = "failed"
    /\ sig' = Idle
    /\ f_notify' = Unwound(f_notify, "notify", from)
    /\ f_write_file' =
          LET w == Unwound(f_write_file, "write_file", from)
          IN  [w EXCEPT !.file = IF w.pc = "dead" /\ @ = "open" THEN "closed" ELSE @]
    /\ f_other_rules' = Unwound(f_other_rules, "rule__other_rules", from)
    /\ f_code_blocks' = Unwound(f_code_blocks, "rule__code_blocks", from)
    /\ f_concatenate' = Unwound(f_concatenate, "concatenate", from)
    /\ f_read' = IF from = "reader" THEN [f_read EXCEPT !.pc = "dead"] ELSE f_read
    /\ UNCHANGED <<chain, f_include>>

\* ---- __main__
\* a variant in which building the pipeline already opens the output file
MainConstruct_eager ==
    /\ main = "start"
    /\ main' = "constructed"
    /\ f_write_file' = [f_write_file EXCEPT !.file = "open"]
    /\ UNCHANGED <<chain, sig, f_notify, f_other_rules, f_code_blocks,
                   f_concatenate, f_include, f_read, handles, last_override, pvars>>

\* pipeline(process): the generator is created, its body has not run
MainConstruct ==
    /\ main = "start"
    /\ main' = "constructed"
    /\ UNCHANGED <<chain, sig, f_notify, f_write_file, f_other_rules, f_code_blocks,
                   f_concatenate, f_include, f_read, handles, last_override, pvars>>

\* list() asks for the next element; the first time, the body of pipeline runs
\* reduce, which builds the chain of generators
MainNext ==
    /\ main \in {"constructed", "iterating"}
    /\ sig.to = "main"
    /\ sig.kind \in {"none", "yield"}
    /\ main' = "iterating"
    /\ chain' = IF main = "constructed" THEN pipeline(process, None).frames ELSE chain
    /\ Send(chain'[Len(chain')], "next", NoElement)
    /\ UNCHANGED <<f_notify, f_write_file, f_other_rules, f_code_blocks,
                   f_concatenate, f_include, f_read, handles, last_override, pvars>>

\* the pipeline is exhausted: list() returns
MainStop ==
    /\ At("main", "stop")
    /\ main' = "done"
    /\ sig' = Idle
    /\ UNCHANGED <<chain, f_notify, f_write_file, f_other_rules, f_code_blocks,
                   f_concatenate, f_include, f_read, handles, last_override, pvars>>

\* a variant without the `with`: the handle stays open
with_exit_leak(open, frag) == open

\* the `with` of read_file ends: the handle of the fragment is closed
with_exit(open, frag) == open \ {frag}

\* The script ends.  After an exception the generators still suspended are
\* finalized: close() raises GeneratorExit at their yield, which leaves the
\* `with` of a read_file suspended inside it.
Exit ==
    /\ main \in {"done", "failed"}
    /\ main' = "exited"
    /\ LET closed(fr) == IF fr.pc \in {"done", "dead"} THEN fr ELSE [fr EXCEPT !.pc = "closed"]
       IN  /\ f_other_rules' = closed(f_other_rules)
           /\ f_code_blocks' = closed(f_code_blocks)
           /\ f_concatenate' = closed(f_concatenate)
           /\ f_include' = closed(f_include)
           /\ f_read' = closed(f_read)
           /\ f_notify' = closed(f_notify)
           /\ f_write_file' = closed(f_write_file)
    /\ handles' = IF f_read.pc = "body" THEN with_exit(handles, f_read.frag) ELSE handles
    /\ UNCHANGED <<chain, sig, last_override, pvars>>

\* ---- notify
\* notify is asked for an element: the first time it prints 'Writing README.rst';
\* the for loop asks enumerate(lines) for the next line
NotifyNext ==
    /\ At("notify", "next")
    /\ f_notify' = [f_notify EXCEPT !.pc = "loop", !.writing = TRUE]
    /\ Send(Up("notify"), "next", NoElement)
    /\ UNCHANGED <<main, chain, f_write_file, f_other_rules, f_code_blocks,
                   f_concatenate, f_include, f_read, handles, last_override, pvars>>

\* a line arrives: print '.' when i % 5 is 0, yield the line
NotifyYield ==
    /\ At("notify", "yield")
    /\ f_notify' = [f_notify EXCEPT !.i = (@ + 1) % TickEvery,
                                    !.tick = (f_notify.i % TickEvery = 0)]
    /\ Send(Down("notify"), "yield", sig.val)
    /\ UNCHANGED <<main, chain, f_write_file, f_other_rules, f_code_blocks,
                   f_concatenate, f_include, f_read, handles, last_override, pvars>>

\* lines is exhausted: print 'Done!' and return
NotifyStop ==
    /\ At("notify", "stop")
    /\ f_notify' = [f_notify EXCEPT !.pc = "done", !.done = TRUE]
    /\ Send(Down("notify"), "stop", NoElement)
    /\ UNCHANGED <<main, chain, f_write_file, f_other_rules, f_code_blocks,
                   f_concatenate, f_include, f_read, handles, last_override, pvars>>

\* ---- write_file
\* a variant of write_file that does not open OUT_FILE before it asks for
\* the first line
WriteNext_unopened ==
    /\ At("write_file", "next")
    /\ f_write_file' = [f_write_file EXCEPT !.pc = "loop"]
    /\ Send(Up("write_file"), "next", NoElement)
    /\ UNCHANGED <<main, chain, f_notify, f_other_rules, f_code_blocks,
                   f_concatenate, f_include, f_read, handles, last_override, pvars>>

\* write_file is asked for an element: the first time it opens OUT_FILE for
\* writing; the for loop asks lines for the next line
WriteNext ==
    /\ At("write_file", "next")
    /\ f_write_file' = [f_write_file EXCEPT !.pc = "loop",
                                            !.file = IF f_write_file.pc = "start" THEN "open" ELSE @]
    /\ Send(Up("write_file"), "next", NoElement)
    /\ UNCHANGED <<main, chain, f_notify, f_other_rules, f_code_blocks,
                   f_concatenate, f_include, f_read, handles, last_override, pvars>>

\* a variant of write_file that keeps the line for later instead of
\* writing it
WriteYield_deferred ==
    /\ At("write_file", "yield")
    /\ f_write_file' = [f_write_file EXCEPT !.header = IF sig.val.role = "header" THEN sig.val.frag ELSE @]
    /\ Send(Down("write_file"), "yield", [sig.val EXCEPT !.text = <<>>, !.n = Len(sig.val.text)])
    /\ UNCHANGED <<main, chain, f_notify, f_other_rules, f_code_blocks,
                   f_concatenate, f_include, f_read, handles, last_override, pvars>>

\* a line arrives: f.write(line), and yield what it returns
WriteYield ==
    /\ At("write_file", "yield")
    /\ f_write_file' = [f_write_file EXCEPT !.header = IF sig.val.role = "header" THEN sig.val.frag ELSE @,
                                            !.last = sig.val]
    /\ Send(Down("write_file"), "yield", [sig.val EXCEPT !.text = <<>>, !.n = Len(sig.val.text)])
    /\ UNCHANGED <<main, chain, f_notify, f_other_rules, f_code_blocks,
                   f_concatenate, f_include, f_read, handles, last_override, pvars>>

\* a line arrives and f.write(line) raises OSError
WriteError ==
    /\ At("write_file", "yield")
    /\ Raise("write_file")
    /\ UNCHANGED <<handles, last_override, pvars>>

\* lines is exhausted: the `with` closes the output file; return
WriteStop ==
    /\ At("write_file", "stop")
    /\ f_write_file' = [f_write_file EXCEPT !.pc = "done", !.file = "closed"]
    /\ Send(Down("write_file"), "stop", NoElement)
    /\ UNCHANGED <<main, chain, f_notify, f_other_rules, f_code_blocks,
                   f_concatenate, f_include, f_read, handles, last_override, pvars>>

\* ---- rule__other_rules
\* the for loop asks lines for the next line
OtherNext ==
    /\ At("rule__other_rules", "next")
    /\ f_other_rules' = [f_other_rules EXCEPT !.pc = "loop"]
    /\ Send(Up("rule__other_rules"), "next", NoElement)
    /\ UNCHANGED <<main, chain, f_notify, f_write_file, f_code_blocks,
                   f_concatenate, f_include, f_read, handles, last_override, pvars>>

\* a line arrives: drop it and ask for the next one, or yield it
OtherYield ==
    /\ At("rule__other_rules", "yield")
    /\ LET out == rule__other_rules_body(sig.val.text)
       IN  /\ f_other_rules' = [f_other_rules EXCEPT !.in = sig.val, !.out = out]
           /\ IF out = <<>>
              THEN Send(Up("rule__other_rules"), "next", NoElement)
              ELSE Send(Down("rule__other_rules"), "yield", [sig.val EXCEPT !.text = out[1]])
    /\ UNCHANGED <<main, chain, f_notify, f_write_file, f_code_blocks,
                   f_concatenate, f_include, f_read, handles, last_override, pvars>>

\* lines is exhausted: return
OtherStop ==
    /\ At("rule__other_rules", "stop")
    /\ f_other_rules' = [f_other_rules EXCEPT !.pc = "done"]
    /\ Send(Down("rule__other_rules"), "stop", NoElement)
    /\ UNCHANGED <<main, chain, f_notify, f_write_file, f_code_blocks,
                   f_concatenate, f_include, f_read, handles, last_override, pvars>>

\* ---- rule__code_blocks
\* the kind an override line names: what follows the '.. highlight:: ' prefix
NamedKind(line) == Strip(SubSeq(line, Len(HIGHLIGHT) + 1, Len(line)))

\* rule__code_blocks is asked for an element: suspended after the first yield
\* of a shorthand line it yields the code-block directive, otherwise the for
\* loop asks lines for the next line
CodeBlocksNext ==
    /\ At("rule__code_blocks", "next")
    /\ IF f_code_blocks.pending # <<>>
       THEN /\ f_code_blocks' = [f_code_blocks EXCEPT
                                    !.pending = Tail(@),
                                    !.out = Append(@, Head(f_code_blocks.pending))]
            /\ Send(Down("rule__code_blocks"), "yield",
                    [f_code_blocks.in EXCEPT !.text = Head(f_code_blocks.pending),
                                             !.part = "directive"])
       ELSE /\ f_code_blocks' = [f_code_blocks EXCEPT !.pc = "loop"]
            /\ Send(Up("rule__code_blocks"), "next", NoElement)
    /\ UNCHANGED <<main, chain, f_notify, f_write_file, f_other_rules,
                   f_concatenate, f_include, f_read, handles, last_override, pvars>>

\* a line arrives: one pass of the loop body, up to its first yield or to
\* the next iteration
CodeBlocksYield ==
    /\ At("rule__code_blocks", "yield")
    /\ LET line == sig.val.text
           r == rule__code_blocks_body(line, f_code_blocks.code_block_language)
       IN  IF r.error
           THEN /\ Raise("rule__code_blocks")
                /\ UNCHANGED <<handles, last_override, pvars>>
           ELSE /\ f_code_blocks' =
                      [f_code_blocks EXCEPT
                          !.code_block_language = r.lang,
                          !.in = sig.val,
                          !.out = IF r.out = <<>> THEN <<>> ELSE <<r.out[1]>>,
                          !.pending = IF r.out = <<>> THEN <<>> ELSE Tail(r.out)]
                /\ last_override' =
                      IF StartsWith(line, HIGHLIGHT)
                      THEN [frag |-> sig.val.frag, kind |-> NamedKind(line)]
                      ELSE last_override
                /\ IF r.out = <<>>
                   THEN Send(Up("rule__code_blocks"), "next", NoElement)
                   ELSE Send(Down("rule__code_blocks"), "yield",
                             [sig.val EXCEPT !.text = r.out[1],
                                             !.part = IF Len(r.out) > 1 THEN "stripped" ELSE "line"])
                /\ UNCHANGED <<main, chain, f_notify, f_write_file, f_other_rules,
                               f_concatenate, f_include, f_read, handles, pvars>>

\* lines is exhausted: return
CodeBlocksStop ==
    /\ At("rule__code_blocks", "stop")
    /\ f_code_blocks' = [f_code_blocks EXCEPT !.pc = "done"]
    /\ Send(Down("rule__code_blocks"), "stop", NoElement)
    /\ UNCHANGED <<main, chain, f_notify, f_write_file, f_other_rules,
                   f_concatenate, f_include, f_read, handles, last_override, pvars>>

\* ---- concatenate
\* concatenate is asked for an element: inside `yield from source` it asks the
\* source, otherwise the for loop asks sources for the next source
ConcatNext ==
    /\ At("concatenate", "next")
    /\ IF f_concatenate.pc = "source"
       THEN /\ Send("reader", "next", NoElement)
            /\ UNCHANGED f_concatenate
       ELSE /\ Send(Up("concatenate"), "next", NoElement)
            /\ f_concatenate' = [f_concatenate EXCEPT !.pc = "for"]
    /\ UNCHANGED <<main, chain, f_notify, f_write_file, f_other_rules, f_code_blocks,
                   f_include, f_read, handles, last_override, pvars>>

\* sources yields a source: `yield from source` starts it
ConcatSource ==
    /\ At("concatenate", "yield")
    /\ f_concatenate.pc = "for"
    /\ f_concatenate' = [f_concatenate EXCEPT !.pc = "source", !.source = sig.val.frag,
                                              !.cnt = 0]
    /\ f_read' = [pc |-> "start", frag |-> sig.val.frag, pending |-> <<>>, nread |-> 0]
    /\ Send("reader", "next", NoElement)
    /\ UNCHANGED <<main, chain, f_notify, f_write_file, f_other_rules, f_code_blocks,
                   f_include, handles, last_override, pvars>>

\* the source yields an element: `yield from` yields it
ConcatLine ==
    /\ At("concatenate", "yield")
    /\ f_concatenate.pc = "source"
    /\ f_concatenate' = [f_concatenate EXCEPT !.cnt = @ + 1]
    /\ Send(Down("concatenate"), "yield", sig.val)
    /\ UNCHANGED <<main, chain, f_notify, f_write_file, f_other_rules, f_code_blocks,
                   f_include, f_read, handles, last_override, pvars>>

\* a variant of concatenate that goes on to the next source without a
\* separator
ConcatSourceEnd_chained ==
    /\ At("concatenate", "stop")
    /\ f_concatenate.pc = "source"
    /\ f_concatenate' = [f_concatenate EXCEPT !.pc = "for", !.nsrc = @ + 1]
    /\ Send(Up("concatenate"), "next", NoElement)
    /\ UNCHANGED <<main, chain, f_notify, f_write_file, f_other_rules, f_code_blocks,
                   f_include, f_read, handles, last_override, pvars>>

\* the source is exhausted: yield '\n\n'
ConcatSourceEnd ==
    /\ At("concatenate", "stop")
    /\ f_concatenate.pc = "source"
    /\ f_concatenate' = [f_concatenate EXCEPT !.pc = "separator", !.nsrc = @ + 1,
                                              !.nsep = @ + 1]
    /\ Send(Down("concatenate"), "yield",
            Element(SEPARATOR, f_concatenate.source, "separator", 0))
    /\ UNCHANGED <<main, chain, f_notify, f_write_file, f_other_rules, f_code_blocks,
                   f_include, f_read, handles, last_override, pvars>>

\* sources is exhausted: return
ConcatStop ==
    /\ At("concatenate", "stop")
    /\ f_concatenate.pc = "for"
    /\ f_concatenate' = [f_concatenate EXCEPT !.pc = "done"]
    /\ Send(Down("concatenate"), "stop", NoElement)
    /\ UNCHANGED <<main, chain, f_notify, f_write_file, f_other_rules, f_code_blocks,
                   f_include, f_read, handles, last_override, pvars>>

\* ---- include_documents
\* the next `yield read_...(...)`: a fragment generator, not yet started
IncludeYield ==
    /\ At("include_documents", "next")
    /\ f_include.i < Len(Documents)
    /\ f_include' = [pc |-> "run", i |-> f_include.i + 1]
    /\ Send(Down("include_documents"), "yield", Element(<<>>, f_include.i + 1, "source", 0))
    /\ UNCHANGED <<main, chain, f_notify, f_write_file, f_other_rules, f_code_blocks,
                   f_concatenate, f_read, handles, last_override, pvars>>

\* after the last yield: return
IncludeReturn ==
    /\ At("include_documents", "next")
    /\ f_include.i = Len(Documents)
    /\ f_include' = [f_include EXCEPT !.pc = "done"]
    /\ Send(Down("include_documents"), "stop", NoElement)
    /\ UNCHANGED <<main, chain, f_notify, f_write_file, f_other_rules, f_code_blocks,
                   f_concatenate, f_read, handles, last_override, pvars>>

\* ---- read_text, read_source / read_file
IsFile(frag) == Documents[frag].kind = "file"

\* the first pull: yield FILE_HEADER % relpath(...)
ReadHeader ==
    /\ At("reader", "next")
    /\ f_read.pc = "start"
    /\ LET d == Documents[f_read.frag]
           all == IF d.kind = "text" THEN read_text(d.text) ELSE read_source(d.name, <<>>)
       IN  /\ f_read' = [f_read EXCEPT !.pc = "header", !.pending = Tail(all)]
           /\ Send("concatenate", "yield", Element(Head(all), f_read.frag, "header", 0))
    /\ UNCHANGED <<main, chain, f_notify, f_write_file, f_other_rules, f_code_blocks,
                   f_concatenate, f_include, handles, last_override, pvars>>

\* read_text: yield the next line of text.splitlines(True)
ReadText ==
    /\ At("reader", "next")
    /\ ~IsFile(f_read.frag)
    /\ f_read.pc \in {"header", "body"}
    /\ f_read.pending # <<>>
    /\ f_read' = [f_read EXCEPT !.pc = "body", !.pending = Tail(@), !.nread = @ + 1]
    /\ Send("concatenate", "yield",
            Element(Head(f_read.pending), f_read.frag, "content", f_read.nread + 1))
    /\ UNCHANGED <<main, chain, f_notify, f_write_file, f_other_rules, f_code_blocks,
                   f_concatenate, f_include, handles, last_override, pvars>>

\* read_text: the lines are exhausted: return
ReadTextEnd ==
    /\ At("reader", "next")
    /\ ~IsFile(f_read.frag)
    /\ f_read.pc \in {"header", "body"}
    /\ f_read.pending = <<>>
    /\ f_read' = [f_read EXCEPT !.pc = "done"]
    /\ Send("concatenate", "stop", NoElement)
    /\ UNCHANGED <<main, chain, f_notify, f_write_file, f_other_rules, f_code_blocks,
                   f_concatenate, f_include, handles, last_override, pvars>>

\* a variant of read_file that opens the file before it yields the header
ReadOpenError_first ==
    /\ At("reader", "next")
    /\ IsFile(f_read.frag)
    /\ f_read.pc = "start"
    /\ Raise("reader")
    /\ UNCHANGED <<handles, last_override, pvars>>

\* a variant of read_file that takes a missing file for an empty one
ReadOpenError_empty ==
    /\ At("reader", "next")
    /\ IsFile(f_read.frag)
    /\ f_read.pc = "header"
    /\ f_read' = [f_read EXCEPT !.pc = "dead"]
    /\ Send("concatenate", "stop", NoElement)
    /\ UNCHANGED <<main, chain, f_notify, f_write_file, f_other_rules, f_code_blocks,
                   f_concatenate, f_include, handles, last_override, pvars>>

\* read_file, the pull after the header: open(file_name) raises
\* FileNotFoundError
ReadOpenError ==
    /\ At("reader", "next")
    /\ IsFile(f_read.frag)
    /\ f_read.pc = "header"
    /\ Raise("reader")
    /\ UNCHANGED <<handles, last_override, pvars>>

\* read_file: (the pull after the header: open(file_name);) the file yields
\* its next line
ReadLine ==
    /\ At("reader", "next")
    /\ IsFile(f_read.frag)
    /\ f_read.pc \in {"header", "body"}
    /\ f_read.nread < MaxLines
    /\ \E line \in Vocabulary :
          Send("concatenate", "yield", Element(line, f_read.frag, "content", f_read.nread + 1))
    /\ f_read' = [f_read EXCEPT !.pc = "body", !.nread = @ + 1]
    /\ handles' = handles \cup {f_read.frag}
    /\ UNCHANGED <<main, chain, f_notify, f_write_file, f_other_rules, f_code_blocks,
                   f_concatenate, f_include, last_override, pvars>>

\* a variant of read_file that returns without closing the file
ReadEOF_unclosed ==
    /\ At("reader", "next")
    /\ IsFile(f_read.frag)
    /\ f_read.pc \in {"header", "body"}
    /\ f_read' = [f_read EXCEPT !.pc = "done"]
    /\ handles' = handles \cup {f_read.frag}
    /\ Send("concatenate", "stop", NoElement)
    /\ UNCHANGED <<main, chain, f_notify, f_write_file, f_other_rules, f_code_blocks,
                   f_concatenate, f_include, last_override, pvars>>

\* read_file: (the pull after the header: open(file_name);) the file is
\* exhausted: the `with` closes it; return
ReadEOF ==
    /\ At("reader", "next")
    /\ IsFile(f_read.frag)
    /\ f_read.pc \in {"header", "body"}
    /\ f_read' = [f_read EXCEPT !.pc = "done"]
    /\ handles' = with_exit(handles \cup {f_read.frag}, f_read.frag)
    /\ Send("concatenate", "stop", NoElement)
    /\ UNCHANGED <<main, chain, f_notify, f_write_file, f_other_rules, f_code_blocks,
                   f_concatenate, f_include, last_override, pvars>>

Next ==
    \/ MainConstruct \/ MainNext \/ MainStop \/ Exit
    \/ NotifyNext \/ NotifyYield \/ NotifyStop
    \/ WriteNext \/ WriteYield \/ WriteError \/ WriteStop
    \/ OtherNext \/ OtherYield \/ OtherStop
    \/ CodeBlocksNext \/ CodeBlocksYield \/ CodeBlocksStop
    \/ ConcatNext \/ ConcatSource \/ ConcatLine \/ ConcatSourceEnd \/ ConcatStop
    \/ IncludeYield \/ IncludeReturn
    \/ ReadHeader \/ ReadText \/ ReadTextEnd \/ ReadOpenError \/ ReadLine \/ ReadEOF

\* ------------------------------------------------------------- properties
\* how often e occurs in a stream
CountOf(stream, e) == Cardinality({i \in 1..Len(stream) : stream[i] = e})

\* SpecPipe: concatenate was just applied to the source list p_initial.srcs
ConcatApplied == p_pc = "reduce" /\ p_i = 2 /\ p_steps[1] = "concatenate"

\* C1 as stated: for N fragments the stream of concatenate holds N-1
\* separators, none after the last fragment, and is empty for N = 0.
C1_SeparatorsBetween ==
    ConcatApplied =>
        LET N == Len(p_initial.srcs)
            out == p_result.lines
        IN  /\ N = 0 => out = <<>>
            /\ N > 0 => /\ CountOf(out, SEPARATOR) = N - 1
                        /\ out[Len(out)] # SEPARATOR

\* C1 amended: for N fragments the stream of concatenate holds exactly N
\* separators, one right after the contribution of each fragment, the last
\* one included; it is empty for N = 0.
C1_SeparatorAfterEach ==
    ConcatApplied =>
        LET srcs == p_initial.srcs
            N == Len(srcs)
            out == p_result.lines
            off(k) == Len(Flatten(SubSeq(srcs, 1, k - 1))) + (k - 1)
        IN  /\ CountOf(out, SEPARATOR) = N
            /\ Len(out) = Len(Flatten(srcs)) + N
            /\ \A k \in 1..N :
                  /\ SubSeq(out, off(k) + 1, off(k) + Len(srcs[k])) = srcs[k]
                  /\ out[off(k) + Len(srcs[k]) + 1] = SEPARATOR
            /\ N = 0 => out = <<>>

C1_Witness ==
    /\ ConcatApplied
    /\ Len(p_initial.srcs) = 2
    /\ CountOf(p_result.lines, SEPARATOR) = 2

\* SpecPipe: the stage applied last is one of names
StageApplied(names) ==
    /\ p_pc \in {"reduce", "done"}
    /\ p_i >= 2
    /\ p_steps[p_i - 1] \in names

NotOrphan(line) == ~StartsWith(line, ORPHAN)

\* C5: what rule__other_rules (alone, or as the last rule of sanitize)
\* yields holds no element and no line of text that begins with ':orphan:';
\* rule__other_rules yields the other elements unchanged, in their order.
C5_OrphanStripped ==
    StageApplied({"rule__other_rules", "sanitize"}) =>
        LET out == p_result.lines
            text == splitlines(Flatten(out))
        IN  /\ \A i \in 1..Len(out) : NotOrphan(out[i])
            /\ \A i \in 1..Len(text) : NotOrphan(text[i])
            /\ StageApplied({"rule__other_rules"}) => out = SelectSeq(p_prev.lines, NotOrphan)
            /\ StageApplied({"sanitize"}) =>
                  out = SelectSeq(rule__code_blocks(p_prev.lines), NotOrphan)

C5_Witness ==
    /\ p_pc = "done"
    /\ p_steps = rules
    /\ \E i \in 1..Len(p_initial.lines) : ~NotOrphan(p_initial.lines[i])
    /\ \E i \in 1..Len(p_initial.lines) : NotOrphan(p_initial.lines[i])
    /\ p_out.lines # <<>>

\* sn(...s2(s1(x))...), from the outermost stage inwards
RECURSIVE Nested(_, _)
Nested(steps, x) ==
    IF steps = <<>> THEN x
    ELSE step_call(steps[Len(steps)], Nested(SubSeq(steps, 1, Len(steps) - 1), x))

\* the generator frames of one stage
FramesOf(step) ==
    CASE step = "sanitize" -> rules
      [] step = "write_out" -> <<"write_file">>
      [] OTHER -> <<step>>

\* C10: pipeline(steps, initial) yields what sn(...s2(s1(initial))...)
\* yields: after k steps reduce holds sk(...s1(initial)...), and the frames
\* of the result are those of s1, ..., sn, each once, in list order; a
\* producer as s1 is applied to the absent input None.
C10_LeftToRight ==
    /\ p_pc = "reduce" => p_result = Nested(SubSeq(p_steps, 1, p_i - 1), p_initial)
    /\ p_pc = "done" =>
          /\ p_out = Nested(p_steps, p_initial)
          /\ p_out.frames = Flatten([k \in 1..Len(p_steps) |-> FramesOf(p_steps[k])])

C10_Witness ==
    /\ p_pc = "done"
    /\ Len(p_steps) >= 3
    /\ p_steps[1] = "include_documents"
    /\ p_initial = None
    /\ p_out.kind = "lines"
    /\ \E i \in 1..Len(p_out.lines) : EndsWith(p_out.lines[i], <<":", ":", " ", "r", "\n">>)

\* the elements a flow yields, whatever their kind
ElementsOf(flow) == flow.srcs \o flow.lines \o flow.counts

\* how many of the first k events are yields
YieldsBefore(events, k) == Cardinality({j \in 1..(k - 1) : events[j] = "yield"})

\* C11: notify is an observer: it yields every element it is given,
\* unchanged and in order, and what is written to the output is what is
\* written without it; it prints 'Done!' once, after its last yield, and a
\* tick before every element whose index is a multiple of 5, one tick for
\* every five elements begun.
C11_NotifyObserves ==
    /\ StageApplied({"notify"}) =>
          LET n == Len(ElementsOf(p_prev))
              before == Len(p_prev.printed)
              ev == SubSeq(p_result.printed, before + 1, Len(p_result.printed))
          IN  /\ ElementsOf(p_result) = ElementsOf(p_prev)
              /\ p_result.kind = p_prev.kind
              /\ p_result.written = p_prev.written
              /\ ev[1] = "Writing"
              /\ ev[Len(ev)] = "Done!"
              /\ CountOf(ev, "Done!") = 1 /\ CountOf(ev, "Writing") = 1
              /\ CountOf(ev, "yield") = n
              /\ CountOf(ev, ".") = (n + 4) \div 5
              /\ \A k \in 1..Len(ev) :
                    /\ ev[k] = "." => ev[k + 1] = "yield" /\ YieldsBefore(ev, k) % 5 = 0
                    /\ (ev[k] = "yield" /\ YieldsBefore(ev, k) % 5 = 0) => ev[k - 1] = "."
    /\ (p_pc = "done" /\ p_steps[Len(p_steps)] = "notify") =>
          LET without == Nested(SubSeq(p_steps, 1, Len(p_steps) - 1), p_initial)
          IN  /\ p_out.written = without.written
              /\ ElementsOf(p_out) = ElementsOf(without)

C11_Witness ==
    /\ p_pc = "done"
    /\ p_steps = process
    /\ Len(p_out.written) > 3 * TickEvery
    /\ CountOf(p_out.printed, ".") > 3
    /\ p_out.printed[Len(p_out.printed)] = "Done!"

\* ---- the run: rule__code_blocks
\* rule__code_blocks has finished with the line f_code_blocks.in: everything
\* the loop body yields for it is in f_code_blocks.out
CodeBlocksSettled ==
    /\ f_code_blocks.in.role # "none"
    /\ f_code_blocks.pending = <<>>

\* the line ends with '::' and a newline
EndsWithTerminator(line) == EndsWith(line, <<":", ":", "\n">>)

\* the line without the '::' before its newline
TerminatorRemoved(line) == SubSeq(line, 1, Len(line) - 3) \o <<"\n">>

\* the element that holds the blank line and the code-block directive
DirectiveFor(kind) == <<"\n", ".", ".", " ", "c", "o", "d", "e", "-", "b", "l", "o", "c", "k", ":", ":", " ">> \o kind \o <<"\n">>

\* the three lines of text a shorthand line is rewritten to
RewrittenText(line, kind) ==
    <<TerminatorRemoved(line), <<"\n">>, <<".", ".", " ", "c", "o", "d", "e", "-", "b", "l", "o", "c", "k", ":", ":", " ">> \o kind \o <<"\n">>>>

\* C2 as stated: a line that ends with '::' and a newline and does not begin
\* with '..' is replaced by the line without the terminator, a blank line
\* and the directive '.. code-block:: <current kind>'; the line itself is
\* not emitted; when no override was seen the kind is 'python'.
C2_ShorthandUnlessDirective ==
    LET line == f_code_blocks.in.text
        out == f_code_blocks.out
    IN  (CodeBlocksSettled /\ EndsWithTerminator(line) /\ ~StartsWith(line, <<".", ".">>)) =>
            /\ splitlines(Flatten(out)) = RewrittenText(line, f_code_blocks.code_block_language)
            /\ \A i \in 1..Len(out) : out[i] # line
            /\ last_override.frag = 0 => f_code_blocks.code_block_language = <<"p", "y", "t", "h", "o", "n">>

\* C2 amended: a line that ends with '::' and a newline and, once its
\* leading whitespace is stripped, does not begin with '..' is replaced, in
\* this order, by the line without the terminator and one element that holds
\* a blank line and the directive '.. code-block:: <current kind>'; the line
\* itself is not emitted; when no override was seen the kind is 'python'.
C2_ShorthandUnlessStrippedDirective ==
    LET line == f_code_blocks.in.text
        out == f_code_blocks.out
    IN  (CodeBlocksSettled /\ EndsWithTerminator(line) /\ ~StartsWith(LStrip(line), <<".", ".">>)) =>
            /\ out = <<TerminatorRemoved(line), DirectiveFor(f_code_blocks.code_block_language)>>
            /\ splitlines(Flatten(out)) = RewrittenText(line, f_code_blocks.code_block_language)
            /\ \A i \in 1..Len(out) : out[i] # line
            /\ last_override.frag = 0 => f_code_blocks.code_block_language = <<"p", "y", "t", "h", "o", "n">>

C2_Witness ==
    /\ CodeBlocksSettled
    /\ f_code_blocks.in.text = <<"a", ":", ":", "\n">>
    /\ last_override.frag = 0
    /\ f_code_blocks.out = <<<<"a", "\n">>, <<"\n", ".", ".", " ", "c", "o", "d", "e", "-", "b", "l", "o", "c", "k", ":", ":", " ", "p", "y", "t", "h", "o", "n", "\n">>>>

\* the line is a shorthand line as the rule classifies it
IsShorthand(line) == EndsWithTerminator(line) /\ ~StartsWith(LStrip(line), <<".", ".">>)

\* C3: a line that begins with '.. highlight:: ' yields nothing, and a later
\* shorthand line of the same fragment is rewritten with the kind that the
\* most recent override line before it in that fragment names.
C3_OverrideScoped ==
    LET line == f_code_blocks.in.text
        out == f_code_blocks.out
    IN  CodeBlocksSettled =>
            /\ StartsWith(line, <<".", ".", " ", "h", "i", "g", "h", "l", "i", "g", "h", "t", ":", ":", " ">>) => out = <<>>
            /\ (/\ IsShorthand(line)
                /\ last_override.frag = f_code_blocks.in.frag
                /\ last_override.kind # <<>>) =>
                  /\ Len(out) = 2
                  /\ out[2] = DirectiveFor(last_override.kind)

\* C4: a shorthand line of a fragment with no override line before it in
\* that fragment is rewritten with the kind 'python', whatever the
\* fragments before it overrode.
C4_ResetPerFragment ==
    LET line == f_code_blocks.in.text
        out == f_code_blocks.out
    IN  (/\ CodeBlocksSettled
         /\ IsShorthand(line)
         /\ last_override.frag # f_code_blocks.in.frag) =>
            out = <<TerminatorRemoved(line), DirectiveFor(<<"p", "y", "t", "h", "o", "n">>)>>

C4_Witness ==
    /\ CodeBlocksSettled
    /\ IsShorthand(f_code_blocks.in.text)
    /\ last_override.frag \in 1..(f_code_blocks.in.frag - 1)
    /\ last_override.kind = <<"r">>
    /\ f_code_blocks.out[2] = <<"\n", ".", ".", " ", "c", "o", "d", "e", "-", "b", "l", "o", "c", "k", ":", ":", " ", "p", "y", "t", "h", "o", "n", "\n">>

\* C12: an override line without a kind after the prefix either leaves the
\* current kind as it was or fails the run; it never sets a new kind.
C12_TokenlessOverride ==
    [][(/\ At("rule__code_blocks", "yield")
        /\ StartsWith(sig.val.text, <<".", ".", " ", "h", "i", "g", "h", "l", "i", "g", "h", "t", ":", ":", " ">>)
        /\ NamedKind(sig.val.text) = <<>>
        /\ CodeBlocksYield)
       => \/ main' = "failed"
          \/ f_code_blocks'.code_block_language = f_code_blocks.code_block_language]_vars

\* the line is classified as the start of a fragment
IsFragmentStart(line) ==
    StartsWith(line, <<".", ".", " ", "S", "o", "u", "r", "c", "e", " ", "d", "e", "f", "i", "n", "e", "d", " ", "i", "n">>)

\* C13: every line classified as a fragment start resets the current kind
\* to 'python', whether or not it also ends like a shorthand line (it is
\* never an override line, and never classified as shorthand, as it begins
\* with '..'), and it is emitted unchanged.
C13_ResetOnEveryFragmentStart ==
    (CodeBlocksSettled /\ IsFragmentStart(f_code_blocks.in.text)) =>
        /\ f_code_blocks.code_block_language = <<"p", "y", "t", "h", "o", "n">>
        /\ f_code_blocks.out = <<f_code_blocks.in.text>>
        /\ ~IsShorthand(f_code_blocks.in.text)
        /\ ~StartsWith(f_code_blocks.in.text, <<".", ".", " ", "h", "i", "g", "h", "l", "i", "g", "h", "t", ":", ":", " ">>)

C13_Witness ==
    /\ CodeBlocksSettled
    /\ IsFragmentStart(f_code_blocks.in.text)
    /\ EndsWithTerminator(f_code_blocks.in.text)
    /\ f_code_blocks.in.idx = 2
    /\ last_override = [frag |-> f_code_blocks.in.frag, kind |-> <<"r">>]
    /\ f_code_blocks.code_block_language = <<"p", "y", "t", "h", "o", "n">>

\* the line begins with the override prefix
IsOverride(line) ==
    StartsWith(line, <<".", ".", " ", "h", "i", "g", "h", "l", "i", "g", "h", "t", ":", ":", " ">>)

\* C17: a line that is neither an override line nor a shorthand line is
\* emitted once, unchanged, and nothing else is emitted for it; so is a
\* line that ends with '::' and a newline but begins, after its leading
\* whitespace, with '..'.
C17_OtherLinesUnchanged ==
    LET line == f_code_blocks.in.text
    IN  (CodeBlocksSettled /\ ~IsOverride(line) /\ ~IsShorthand(line)) =>
            f_code_blocks.out = <<line>>

C17_Witness ==
    /\ CodeBlocksSettled
    /\ EndsWithTerminator(f_code_blocks.in.text)
    /\ StartsWith(f_code_blocks.in.text, <<" ", ".", ".">>)
    /\ f_code_blocks.out = <<f_code_blocks.in.text>>
    /\ f_write_file.last.text = f_code_blocks.in.text

\* C18: the current kind changes only on an override line or on the Header
\* Line at the start of a fragment: a content line that is not an override
\* line leaves it as it was.
C18_KindChangesOnlyOnOverrideOrHeader ==
    [][(/\ At("rule__code_blocks", "yield")
        /\ sig.val.role = "content"
        /\ ~IsOverride(sig.val.text)
        /\ CodeBlocksYield)
       => f_code_blocks'.code_block_language = f_code_blocks.code_block_language]_vars

\* ---- the run: one line at a time
\* a new source line is asked for: the reader is pulled, or concatenate asks
\* for the next source
SourcePulled == At("reader", "next") \/ At("include_documents", "next")

\* an element is on its way to a stage that has not written it yet
InFlight ==
    /\ main = "iterating"
    /\ sig.kind = "yield"
    /\ sig.to \in {"concatenate", "rule__code_blocks", "rule__other_rules", "write_file"}

\* C14: when the next source line is asked for, no stage holds anything, and
\* the last element that the line read before gave rise to and that the
\* rules let through is the last one written to the output file; a stage
\* never holds more than the one element rule__code_blocks keeps for the
\* line in hand.
C14_OneLineAtATime ==
    /\ Len(f_code_blocks.pending) <= 1
    /\ (f_code_blocks.pending # <<>> /\ InFlight) =>
          /\ sig.val.frag = f_code_blocks.in.frag
          /\ sig.val.role = f_code_blocks.in.role
          /\ sig.val.idx = f_code_blocks.in.idx
    /\ SourcePulled =>
          LET e == f_code_blocks.in
              through == SelectSeq(f_code_blocks.out, NotOrphan)
          IN  /\ f_code_blocks.pending = <<>>
              /\ (e.role # "none" /\ through # <<>>) =>
                    /\ f_write_file.last.text = through[Len(through)]
                    /\ f_write_file.last.frag = e.frag
                    /\ f_write_file.last.role = e.role
                    /\ f_write_file.last.idx = e.idx
                    /\ f_write_file.last.part =
                          (IF Len(f_code_blocks.out) = 2 THEN "directive" ELSE "line")

C14_Witness ==
    /\ At("reader", "next")
    /\ f_read.nread = 1
    /\ f_code_blocks.in.idx = 1
    /\ IsShorthand(f_code_blocks.in.text)
    /\ f_write_file.last.part = "directive"
    /\ f_write_file.last.idx = 1

\* ---- the run: fragments in order
\* C15: concatenate takes its fragments in order: fragment k+1 is not asked
\* of include_documents, none of its elements is pulled and its file is not
\* opened before fragment k is exhausted and the separator after it is
\* yielded.
C15_FragmentsInOrder ==
    /\ f_include.i <= f_concatenate.nsep + 1
    /\ f_concatenate.nsrc = f_concatenate.nsep
    /\ f_concatenate.pc \in {"source", "separator"} => f_concatenate.source = f_include.i
    /\ f_concatenate.pc = "source" => f_concatenate.nsep = f_concatenate.source - 1
    /\ f_concatenate.pc = "separator" => f_concatenate.nsep = f_concatenate.source
    /\ f_read.pc \in {"header", "body"} =>
          /\ f_read.frag = f_concatenate.source
          /\ f_concatenate.nsep = f_read.frag - 1
    /\ \A k \in handles : k = f_concatenate.source /\ f_concatenate.nsep = k - 1
    /\ (main = "iterating" /\ sig.kind = "yield" /\ sig.val.frag > 0) =>
          /\ sig.val.frag = f_include.i
          /\ f_concatenate.nsep >= sig.val.frag - 1

C15_Witness ==
    /\ f_read.pc = "body"
    /\ f_read.frag = 4
    /\ handles = {4}
    /\ f_concatenate.nsep = 3
    /\ f_include.i = 4

\* ---- the run: errors
\* C16: the error of the reader ends every stage from concatenate to notify
\* and list() in the same step, with the output file closed; from then on
\* no fragment is asked for or opened, no line is read or transformed and
\* nothing is written.
C16_ReaderErrorEndsRun ==
    [][f_read'.pc = "dead" =>
          /\ main' \in {"failed", "exited"}
          /\ sig' = Idle
          /\ f_concatenate'.pc = "dead"
          /\ f_code_blocks'.pc = "dead"
          /\ f_other_rules'.pc = "dead"
          /\ f_write_file'.pc = "dead" /\ f_write_file'.file = "closed"
          /\ f_notify'.pc = "dead" /\ ~f_notify'.done
          /\ handles' = {}
          /\ f_read.pc = "dead" =>
                /\ f_read' = f_read
                /\ f_include'.i = f_include.i
                /\ f_concatenate' = f_concatenate
                /\ f_code_blocks' = f_code_blocks
                /\ f_other_rules' = f_other_rules
                /\ f_write_file' = f_write_file
                /\ f_notify' = f_notify
                /\ last_override' = last_override]_vars

C16_Witness ==
    /\ main = "exited"
    /\ f_read.pc = "dead"
    /\ f_read.frag = 5
    /\ f_include.pc = "closed"
    /\ f_write_file.last.frag = 5
    /\ f_write_file.last.role = "header"

\* ---- the run: the output file
\* C19: the output file grows by exactly the elements that leave the rules,
\* one at a time and in their order, so that it always holds a prefix of
\* the transformed document: it is opened before a fragment is asked for or
\* read; an element that reaches write_file is written in that step (unless
\* f.write raises), and nothing else is ever written; when a fragment file
\* is missing the file is closed in the step of the error, holding what was
\* written before, the Header Line of that fragment last; once closed it
\* does not change.
C19_OutputIsPrefix ==
    [][/\ (f_include'.i > 0 \/ f_read'.pc # "start" \/ handles' # {}) =>
              f_write_file'.file # "unopened"
       /\ f_write_file'.last # f_write_file.last =>
              /\ At("write_file", "yield")
              /\ f_write_file.file = "open"
              /\ f_write_file'.last = sig.val
              /\ f_other_rules.out = <<sig.val.text>>
              /\ f_other_rules.in.frag = sig.val.frag
              /\ f_other_rules.in.idx = sig.val.idx
       /\ At("write_file", "yield") =>
              \/ f_write_file'.last = sig.val /\ f_write_file'.file = "open"
              \/ main' = "failed" /\ f_write_file'.file = "closed"
       /\ (f_read'.pc = "dead" /\ f_read.pc # "dead") =>
              /\ f_write_file.file = "open"
              /\ f_write_file'.file = "closed"
              /\ f_write_file'.last = f_write_file.last
              /\ f_write_file.last.role = "header"
              /\ f_write_file.last.frag = f_read.frag
       /\ f_write_file.file = "closed" => f_write_file'.last = f_write_file.last
                                          /\ f_write_file'.file = "closed"]_vars

C19_Witness ==
    /\ main = "failed"
    /\ f_read.pc = "dead"
    /\ f_read.frag = 4
    /\ f_write_file.file = "closed"
    /\ f_write_file.last.role = "header"
    /\ f_write_file.last.frag = 4
    /\ f_code_blocks.in.frag = 4

\* ---- the run: files
\* C6: from the construction of the pipeline up to the first pull of list()
\* no fragment file is opened or read and the output file is not opened: no
\* generator has started.
C6_NoIOBeforeFirstPull ==
    main \in {"start", "constructed"} =>
        /\ handles = {}
        /\ f_write_file.file = "unopened"
        /\ f_write_file.pc = "start"
        /\ f_read.pc = "start" /\ f_read.nread = 0
        /\ f_include.pc = "start" /\ f_include.i = 0
        /\ f_concatenate.pc = "start"
        /\ ~f_notify.writing
        /\ chain = <<>>

C6_Witness ==
    /\ main = "constructed"
    /\ f_write_file.file = "unopened"
    /\ handles = {}

\* the Header Line of fragment frag, spelled out
ExpectedHeader(frag) ==
    <<".", ".", " ", "S", "o", "u", "r", "c", "e", " ", "d", "e", "f", "i", "n", "e", "d", " ", "i", "n", " ">> \o
    (IF Documents[frag].kind = "text"
     THEN <<"d", "o", "c", "s", "/", "g", "i", "t", "h", "u", "b", "_", "r", "e", "a", "d", "m", "e", ".", "p", "y">>
     ELSE <<"d", "o", "c", "s", "/", "s", "o", "u", "r", "c", "e", "/">> \o Documents[frag].name) \o
    <<"\n", "\n">>

\* the reader hands an element to the `yield from` of concatenate
FromReader == At("concatenate", "yield") /\ f_concatenate.pc = "source"

\* C7: the first element of every fragment, file or literal text, is its
\* Header Line, FILE_HEADER filled with the path relative to the project
\* root, and there is one only; the content lines follow in their order;
\* the Header Line passes both rules unchanged, ahead of whatever else its
\* fragment contributes.
C7_HeaderFirst ==
    /\ FromReader =>
          LET e == sig.val
              d == Documents[e.frag]
          IN  /\ e.frag = f_concatenate.source
              /\ f_concatenate.cnt = 0 =>
                    e.role = "header" /\ e.text = ExpectedHeader(e.frag)
              /\ f_concatenate.cnt > 0 =>
                    /\ e.role = "content"
                    /\ e.idx = f_concatenate.cnt
                    /\ d.kind = "text" => e.text = splitlines(d.text)[e.idx]
    /\ At("write_file", "yield") =>
          LET e == sig.val
          IN  /\ e.role = "header" => e.text = ExpectedHeader(e.frag) /\ e.part = "line"
              /\ e.role # "header" => f_write_file.header = e.frag

C7_Witness ==
    /\ At("write_file", "yield")
    /\ sig.val.role = "content"
    /\ sig.val.idx = 2
    /\ IsFile(sig.val.frag)
    /\ f_write_file.header = sig.val.frag

\* C8 as stated: the error of a missing file is raised on the first pull of
\* the fragment, before its Header Line or any other element of it.
C8_ErrorOnFirstPull ==
    f_read.pc = "dead" =>
        /\ f_concatenate.cnt = 0
        /\ f_write_file.header # f_read.frag

\* C8 amended: the error of a missing file is raised on the second pull of
\* the fragment: its Header Line, and nothing else of it, was produced (and
\* written) before, and no handle was opened.
C8_ErrorOnSecondPull ==
    f_read.pc = "dead" =>
        /\ IsFile(f_read.frag)
        /\ f_concatenate.cnt = 1
        /\ f_write_file.header = f_read.frag
        /\ f_read.nread = 0
        /\ f_read.frag \notin handles
        /\ main \in {"failed", "exited"}

C8_Witness ==
    /\ f_read.pc = "dead"
    /\ main = "failed"
    /\ f_write_file.header = f_read.frag
    /\ f_write_file.file = "closed"

\* C9: a handle read_file opened is closed once the file is exhausted, and
\* when the run stops early on an exception raised downstream: no run ends
\* with a handle open.
C9_HandlesReleased ==
    /\ f_read.pc = "done" => f_read.frag \notin handles
    /\ main \in {"done", "exited"} => handles = {}

C9_Witness ==
    /\ main = "exited"
    /\ f_read.pc = "closed"
    /\ f_read.nread > 0
    /\ IsFile(f_read.frag)
    /\ f_write_file.pc = "dead"
    /\ handles = {}

\* C20: at most one fragment file is open at a time, the one read_file is
\* reading: the handle of a fragment is closed before the next fragment is
\* started.
C20_OneHandleAtATime ==
    /\ Cardinality(handles) <= 1
    /\ \A k \in handles :
          /\ IsFile(k)
          /\ f_read.frag = k
          /\ f_read.pc = "body"
          /\ f_concatenate.source = k
    /\ f_read.pc \in {"start", "header", "done", "dead", "closed"} => handles = {}

C20_Witness ==
    /\ handles = {6}
    /\ f_read.frag = 6
    /\ f_read.nread = 2
    /\ f_concatenate.nsep = 5

\* ---- the specifications
\* the frames of the script stay as constructed: only pipeline() runs
PipeInit ==
    /\ main = "idle"
    /\ MachineInit
    /\ PipeArguments

SpecPipe == PipeInit /\ [][PipeNext]_vars

Spec == Init /\ [][Next]_vars

====
